---- MODULE Spec2Model ----
(***************************************************************************)
(* Attendance routes (src/routes/attendance.py): the bulk upsert           *)
(* create_bulk_attendance, and the single-record create, update and        *)
(* delete handlers, over a transactional store of attendance records.      *)
(***************************************************************************)
EXTENDS Integers, Sequences, FiniteSets, TLC

\* Bounds of the model.
MaxClock == 2
MaxEntries == 2

\* Handlers in flight.  The sequential specification runs Main alone; the
\* concurrent one runs both.
Procs == {1, 2}
Main == CHOOSE p \in Procs : \A q \in Procs : p <= q

\* Rows of the referenced tables, and the ids requests name.
Students == {1, 2}
Classes == {5}
Users == {10, 11}
StudentIds == Students \cup {999}
ClassIds == Classes \cup {6}

\* The account that submits fresh batches; either account resubmits one and
\* works on single records.
BulkUsers == {11}

\* Python's None (an absent notes value).
None == "None"

----------------------------------------------------------------------------
\* Date strings.  A string is the sequence of its "-"-separated digit
\* groups, each with its width w and its value v.
Tok(w, v) == [w |-> w, v |-> v]

D_2024_03_01 == <<Tok(4, 2024), Tok(2, 3), Tok(2, 1)>>
D_03_01_2024 == <<Tok(2, 3), Tok(2, 1), Tok(4, 2024)>>
D_2024_02_30 == <<Tok(4, 2024), Tok(2, 2), Tok(2, 30)>>
DateStrings == {D_2024_03_01, D_03_01_2024, D_2024_02_30}

IsLeap(y) == (y % 4 = 0 /\ y % 100 # 0) \/ y % 400 = 0

DaysIn(y, m) ==
    IF m = 2 THEN (IF IsLeap(y) THEN 29 ELSE 28)
    ELSE IF m \in {4, 6, 9, 11} THEN 30 ELSE 31

\* datetime.strptime(s, '%Y-%m-%d').date(): %Y takes exactly four digits,
\* %m and %d one or two; the month and the day must be in range for the
\* calendar.  ok = FALSE stands for ValueError.
NoDate == <<0, 0, 0>>

Strptime(s) ==
    IF /\ Len(s) = 3
       /\ s[1].w = 4
       /\ s[2].w \in 1..2 /\ s[2].v \in 1..12
       /\ s[3].w \in 1..2 /\ s[3].v \in 1..DaysIn(s[1].v, s[2].v)
    THEN [ok |-> TRUE, date |-> <<s[1].v, s[2].v, s[3].v>>]
    ELSE [ok |-> FALSE, date |-> NoDate]

----------------------------------------------------------------------------
\* JSON values of a request.  A dict is a function from its keys.
Obj(f) == [json |-> "object", f |-> f]
Str(s) == [json |-> "string", f |-> [raw |-> s]]

\* dict.get(key, default)
Get(f, k, default) == IF k \in DOMAIN f THEN f[k] ELSE default

Restrict(f, K) == [k \in K |-> f[k]]

SeqsUpTo(S, n) == UNION {[1..k -> S] : k \in 0..n}

\* Entries of a bulk request: well-formed ones (present and notes given or
\* omitted), one naming no student, one lacking student_id, and one that is
\* a JSON string, not an object.
EntryValues ==
    { Obj([student_id |-> 1, present |-> FALSE, notes |-> "late"]),
      Obj([student_id |-> 1]),
      Obj([student_id |-> 2, present |-> FALSE]),
      Obj([student_id |-> 999, present |-> FALSE]),
      Obj([present |-> TRUE]),
      Str("x") }

BulkKeys == {"class_id", "date", "attendances"}

\* Every entry list, for the one class and date that exist; a few lists,
\* for every class and date string.
BulkFull ==
    [class_id : Classes, date : {D_2024_03_01},
     attendances : SeqsUpTo(EntryValues, MaxEntries)]
      \cup [class_id : ClassIds, date : DateStrings,
            attendances : {<<>>, <<Obj([student_id |-> 1])>>,
                           <<Obj([student_id |-> 2, present |-> FALSE]),
                             Obj([student_id |-> 999, present |-> FALSE])>>}]

BulkBase ==
    [class_id |-> 5, date |-> D_2024_03_01,
     attendances |-> <<Obj([student_id |-> 1])>>]

\* Requests lacking one or two of the required fields.
BulkMissing ==
    {Restrict(BulkBase, K) : K \in (SUBSET BulkKeys) \ {{}, BulkKeys}}

BulkRequests == BulkFull \cup BulkMissing

\* Bodies of the single-record create.
CreateKeys == {"student_id", "class_id", "date"}

CreateFull ==
    [student_id : {1}, class_id : Classes, date : {D_2024_03_01},
     present : {FALSE}, notes : {"late"}]
      \cup [student_id : StudentIds, class_id : Classes, date : {D_2024_03_01}]
      \cup [student_id : {1}, class_id : ClassIds, date : DateStrings]

CreateBase == [student_id |-> 1, class_id |-> 5, date |-> D_2024_03_01]

CreateMissing ==
    {Restrict(CreateBase, K) : K \in (SUBSET CreateKeys) \ {{}, CreateKeys}}

CreateRequests == CreateFull \cup CreateMissing

\* Bodies of the single-record update.
UpdateRequests == {[present |-> FALSE], [notes |-> "late"]}

\* Bulk requests of the concurrent specification.
RaceRequests ==
    [class_id : Classes, date : {D_2024_03_01},
     attendances : SeqsUpTo({Obj([student_id |-> 1])}, MaxEntries)]

----------------------------------------------------------------------------
VARIABLES
    db,        \* committed attendance rows
    clock,     \* datetime.utcnow()
    pc,        \* per handler: "idle", "loop", "done"
    req,       \* per handler: the request being served
    db0,       \* per handler: the committed rows when the request arrived
    txn,       \* per handler: the session's uncommitted inserts and updates
    added,     \* per handler: the rows it passed to db.session.add
    idx,       \* per handler: entries of data['attendances'] consumed
    created,   \* per handler: created_records
    errors,    \* per handler: errors
    resp,      \* per handler: the response returned
    resub      \* per handler: the request repeats the previous successful one

vars == <<db, clock, pc, req, db0, txn, added, idx, created, errors, resp, resub>>

NoTxn == [ins |-> {}, upd |-> {}]
NoReq == [op |-> "none"]
NoResp == [status |-> 0, kind |-> "none", error |-> "", created |-> <<>>, errors |-> <<>>]

Ids(S) == {r.id : r \in S}

\* The committed rows with a session's own updates applied.
Updated(p) ==
    {r \in db : r.id \notin Ids(txn[p].upd)}
      \cup {u \in txn[p].upd : u.id \in Ids(db)}

\* A query that misses the session's own pending inserts.
SessionViewNoFlush(p) == Updated(p)

\* The rows a query of the session sees: the session flushes before it
\* queries, so its own pending inserts are among them.
SessionView(p) == Updated(p) \cup txn[p].ins

\* A commit that folds an insert into a committed row of the same student,
\* class and date instead of adding a second row.
CommitResultUpsert(p) ==
    Updated(p) \cup
      {r \in txn[p].ins :
          ~\E q \in db : /\ q.student_id = r.student_id
                          /\ q.class_id = r.class_id
                          /\ q.date = r.date}

\* The committed rows after db.session.commit().
CommitResult(p) == Updated(p) \cup txn[p].ins

\* Whether the schema accepts the rows: the store guards no uniqueness of
\* (student_id, class_id, date).
SchemaAllows(S) == TRUE

\* A rollback that leaves the session's changes pending.
RollbackNothing(t) == t

\* db.session.rollback()
Rollback(t) == [ins |-> {}, upd |-> {}]

\* Class.query.get(id) finding a row whatever the id.
ClassExistsAlways(cid) == TRUE

\* Class.query.get(id)
ClassExists(cid) == cid \in Classes

\* Student.query.get(id)
StudentExists(sid) == sid \in Students

\* The id the store gives the next inserted row: one past the largest in use.
Max(S) == IF S = {} THEN 0 ELSE CHOOSE x \in S : \A y \in S : y <= x

NewId == 1 + Max(Ids(db) \cup UNION {Ids(txn[p].ins) : p \in Procs})

Matching(S, sid, cid, date) ==
    {r \in S : r.student_id = sid /\ r.class_id = cid /\ r.date = date}

\* A lookup that compares the date column with the unparsed string, and so
\* matches no row.
FindOneNoMatch(S, sid, cid, date) == {}

\* A lookup that filters on the row id instead of student_id.
FindOneById(S, sid, cid, date) ==
    LET M == {r \in S : r.id = sid /\ r.class_id = cid /\ r.date = date}
    IN  IF M = {} THEN {}
        ELSE {CHOOSE r \in M : \A q \in M : r.id <= q.id}

\* Attendance.query.filter_by(...).first()
FindOne(S, sid, cid, date) ==
    LET M == Matching(S, sid, cid, date)
    IN  IF M = {} THEN {}
        ELSE {CHOOSE r \in M : \A q \in M : r.id <= q.id}

\* The column default of recorded_at.
DefaultRecordedAt(now) == now

\* Attendance(student_id=..., ..., recorded_by=...)
NewAttendance(id, sid, cid, date, present, notes, by, now) ==
    [id |-> id, student_id |-> sid, class_id |-> cid, date |-> date,
     present |-> present, notes |-> notes, recorded_by |-> by,
     recorded_at |-> DefaultRecordedAt(now)]

\* An overwrite that leaves recorded_by as it was.
OverwriteNoRecordedBy(r, present, notes, by, now) ==
    [r EXCEPT !.present = present, !.notes = notes, !.recorded_at = now]

\* existing.present = ...; .notes = ...; .recorded_by = ...; .recorded_at = ...
Overwrite(r, present, notes, by, now) ==
    [r EXCEPT !.present = present, !.notes = notes,
              !.recorded_by = by, !.recorded_at = now]

\* Attendance.to_dict()
ToDict(r) ==
    [student_id |-> r.student_id, class_id |-> r.class_id, date |-> r.date,
     present |-> r.present, notes |-> r.notes, recorded_by |-> r.recorded_by]

\* db.session.add(attendance)
StageInsert(t, r) == [t EXCEPT !.ins = @ \cup {r}]

\* An attribute write on a persistent (or pending) row.
StageUpdate(t, r) ==
    IF r.id \in Ids(t.ins)
    THEN [t EXCEPT !.ins = {q \in @ : q.id # r.id} \cup {r}]
    ELSE [t EXCEPT !.upd = {q \in @ : q.id # r.id} \cup {r}]

ErrResp(status, msg) ==
    [status |-> status, kind |-> "error", error |-> msg,
     created |-> <<>>, errors |-> <<>>]

BulkResp(cr, er) ==
    [status |-> 201, kind |-> "result", error |-> "",
     created |-> cr, errors |-> er]

RowResp(status, r) ==
    [status |-> status, kind |-> "result", error |-> "",
     created |-> <<ToDict(r)>>, errors |-> <<>>]

EmptyResp(status) ==
    [status |-> status, kind |-> "result", error |-> "",
     created |-> <<>>, errors |-> <<>>]

CommitFailed == "commit failed"

\* The message of create_attendance, which names no id.
NotFoundMessageNoId(sid) == "Student not found"

\* f'Student {student_id} not found'
NotFoundMessage(sid) == "Student " \o ToString(sid) \o " not found"

\* f'Error processing student {attendance_data.get("student_id", "unknown")}: {str(e)}'
\* for the KeyError of an entry that has no student_id.
KeyErrorMessage == "Error processing student " \o "unknown" \o ": 'student_id'"

\* An append that is lost.
AppendErrorLost(errs, msg) == errs

\* errors.append(msg)
AppendError(errs, msg) == Append(errs, msg)

\* The first required field the data lacks, "" when none.
FirstMissing(fields, data) ==
    IF \A i \in 1..Len(fields) : fields[i] \in DOMAIN data THEN ""
    ELSE fields[CHOOSE i \in 1..Len(fields) :
                   /\ fields[i] \notin DOMAIN data
                   /\ \A j \in 1..(i - 1) : fields[j] \in DOMAIN data]

BulkRequired == <<"class_id", "date", "attendances">>
CreateRequired == <<"student_id", "class_id", "date">>

----------------------------------------------------------------------------
Init ==
    /\ db = {}
    /\ clock = 0
    /\ pc = [p \in Procs |-> "idle"]
    /\ req = [p \in Procs |-> NoReq]
    /\ db0 = [p \in Procs |-> {}]
    /\ txn = [p \in Procs |-> NoTxn]
    /\ added = [p \in Procs |-> {}]
    /\ idx = [p \in Procs |-> 0]
    /\ created = [p \in Procs |-> <<>>]
    /\ errors = [p \in Procs |-> <<>>]
    /\ resp = [p \in Procs |-> NoResp]
    /\ resub = [p \in Procs |-> FALSE]

\* create_bulk_attendance up to the entry loop: the required fields, the
\* date and the class.
BulkBegin(p, data, user, again) ==
    /\ clock < MaxClock
    /\ clock' = clock + 1
    /\ req' = [req EXCEPT ![p] = [op |-> "bulk", data |-> data, user |-> user]]
    /\ db0' = [db0 EXCEPT ![p] = db]
    /\ resub' = [resub EXCEPT ![p] = again]
    /\ txn' = [txn EXCEPT ![p] = NoTxn]
    /\ added' = [added EXCEPT ![p] = {}]
    /\ idx' = [idx EXCEPT ![p] = 0]
    /\ created' = [created EXCEPT ![p] = <<>>]
    /\ errors' = [errors EXCEPT ![p] = <<>>]
    /\ LET missing == FirstMissing(BulkRequired, data)
       IN  IF missing # ""
           THEN /\ resp' = [resp EXCEPT ![p] = ErrResp(400, missing \o " is required")]
                /\ pc' = [pc EXCEPT ![p] = "done"]
           ELSE IF ~Strptime(data.date).ok
           THEN /\ resp' = [resp EXCEPT ![p] =
                              ErrResp(400, "Invalid date format. Use YYYY-MM-DD")]
                /\ pc' = [pc EXCEPT ![p] = "done"]
           ELSE IF ~ClassExists(data.class_id)
           THEN /\ resp' = [resp EXCEPT ![p] = ErrResp(404, "Class not found")]
                /\ pc' = [pc EXCEPT ![p] = "done"]
           ELSE /\ resp' = [resp EXCEPT ![p] = NoResp]
                /\ pc' = [pc EXCEPT ![p] = "loop"]
    /\ UNCHANGED db

StartBulk(p, data, user) ==
    /\ pc[p] = "idle"
    /\ BulkBegin(p, data, user, FALSE)

\* The client sends the batch it has just had accepted once more.
ResubmitBulk(p, user) ==
    /\ pc[p] = "done"
    /\ req[p].op = "bulk"
    /\ resp[p].status = 201
    /\ BulkBegin(p, req[p].data, user, TRUE)

\* One iteration of the entry loop.
BulkEntry(p) ==
    /\ pc[p] = "loop"
    /\ idx[p] < Len(req[p].data.attendances)
    /\ LET data == req[p].data
           e == data.attendances[idx[p] + 1]
           date == Strptime(data.date).date
           user == req[p].user
       IN  IF e.json # "object"
           THEN \* subscripting raises TypeError; the handler's own .get raises
                \* AttributeError, which leaves the loop for the outer handler
                /\ txn' = [txn EXCEPT ![p] = Rollback(@)]
                /\ resp' = [resp EXCEPT ![p] =
                              ErrResp(500, "'str' object has no attribute 'get'")]
                /\ pc' = [pc EXCEPT ![p] = "done"]
                /\ UNCHANGED <<idx, created, errors, added>>
           ELSE IF "student_id" \notin DOMAIN e.f
           THEN \* KeyError, caught by the entry's handler
                /\ errors' = [errors EXCEPT ![p] = AppendError(@, KeyErrorMessage)]
                /\ idx' = [idx EXCEPT ![p] = @ + 1]
                /\ UNCHANGED <<txn, resp, pc, created, added>>
           ELSE IF ~StudentExists(e.f.student_id)
           THEN /\ errors' = [errors EXCEPT ![p] =
                                AppendError(@, NotFoundMessage(e.f.student_id))]
                /\ idx' = [idx EXCEPT ![p] = @ + 1]
                /\ UNCHANGED <<txn, resp, pc, created, added>>
           ELSE LET existing == FindOne(SessionView(p), e.f.student_id, data.class_id, date)
                    present == Get(e.f, "present", TRUE)
                    notes == Get(e.f, "notes", None)
                IN  /\ IF existing # {}
                       THEN LET r == Overwrite(CHOOSE x \in existing : TRUE,
                                               present, notes, user, clock)
                            IN  /\ txn' = [txn EXCEPT ![p] = StageUpdate(@, r)]
                                /\ created' = [created EXCEPT ![p] = Append(@, ToDict(r))]
                                /\ UNCHANGED added
                       ELSE LET r == NewAttendance(NewId, e.f.student_id, data.class_id,
                                                   date, present, notes, user, clock)
                            IN  /\ txn' = [txn EXCEPT ![p] = StageInsert(@, r)]
                                /\ added' = [added EXCEPT ![p] = @ \cup {r}]
                                /\ created' = [created EXCEPT ![p] = Append(@, ToDict(r))]
                    /\ idx' = [idx EXCEPT ![p] = @ + 1]
                    /\ UNCHANGED <<resp, pc, errors>>
    /\ UNCHANGED <<db, clock, req, db0, resub>>

\* db.session.commit() after the loop, and the outer handler when it raises.
BulkCommit(p, ok) ==
    /\ pc[p] = "loop"
    /\ idx[p] = Len(req[p].data.attendances)
    /\ IF ok /\ SchemaAllows(CommitResult(p))
       THEN /\ db' = CommitResult(p)
            /\ txn' = [txn EXCEPT ![p] = NoTxn]
            /\ resp' = [resp EXCEPT ![p] = BulkResp(created[p], errors[p])]
       ELSE /\ db' = db
            /\ txn' = [txn EXCEPT ![p] = Rollback(@)]
            /\ resp' = [resp EXCEPT ![p] = ErrResp(500, CommitFailed)]
    /\ pc' = [pc EXCEPT ![p] = "done"]
    /\ UNCHANGED <<clock, req, db0, added, idx, created, errors, resub>>

\* The handler has returned; the request's session is gone.
Return(p) ==
    /\ pc[p] = "done"
    /\ pc' = [pc EXCEPT ![p] = "idle"]
    /\ req' = [req EXCEPT ![p] = NoReq]
    /\ db0' = [db0 EXCEPT ![p] = {}]
    /\ txn' = [txn EXCEPT ![p] = NoTxn]
    /\ added' = [added EXCEPT ![p] = {}]
    /\ idx' = [idx EXCEPT ![p] = 0]
    /\ created' = [created EXCEPT ![p] = <<>>]
    /\ errors' = [errors EXCEPT ![p] = <<>>]
    /\ resp' = [resp EXCEPT ![p] = NoResp]
    /\ resub' = [resub EXCEPT ![p] = FALSE]
    /\ UNCHANGED <<db, clock>>

\* Every single-record handler runs from its first line to its return.
Arrive(p, r) ==
    /\ pc[p] = "idle"
    /\ clock < MaxClock
    /\ clock' = clock + 1
    /\ req' = [req EXCEPT ![p] = r]
    /\ db0' = [db0 EXCEPT ![p] = db]
    /\ pc' = [pc EXCEPT ![p] = "done"]
    /\ UNCHANGED <<txn, added, idx, created, errors, resub>>

\* create_attendance
CreateAttendance(p, data, user, ok) ==
    /\ Arrive(p, [op |-> "create", data |-> data, user |-> user])
    /\ LET missing == FirstMissing(CreateRequired, data)
       IN  IF missing # ""
           THEN /\ resp' = [resp EXCEPT ![p] = ErrResp(400, missing \o " is required")]
                /\ db' = db
           ELSE IF ~Strptime(data.date).ok
           THEN /\ resp' = [resp EXCEPT ![p] =
                              ErrResp(400, "Invalid date format. Use YYYY-MM-DD")]
                /\ db' = db
           ELSE IF ~StudentExists(data.student_id)
           THEN /\ resp' = [resp EXCEPT ![p] = ErrResp(404, "Student not found")]
                /\ db' = db
           ELSE IF ~ClassExists(data.class_id)
           THEN /\ resp' = [resp EXCEPT ![p] = ErrResp(404, "Class not found")]
                /\ db' = db
           ELSE IF FindOne(db, data.student_id, data.class_id,
                           Strptime(data.date).date) # {}
           THEN /\ resp' = [resp EXCEPT ![p] = ErrResp(400,
                       "Attendance record already exists for this student, class, and date")]
                /\ db' = db
           ELSE LET r == NewAttendance(NewId, data.student_id, data.class_id,
                                       Strptime(data.date).date,
                                       Get(data, "present", TRUE),
                                       Get(data, "notes", None), user, clock)
                IN  IF ok
                    THEN /\ db' = db \cup {r}
                         /\ resp' = [resp EXCEPT ![p] = RowResp(201, r)]
                    ELSE /\ db' = db
                         /\ resp' = [resp EXCEPT ![p] = ErrResp(500, CommitFailed)]

\* update_attendance.  get_or_404 aborts inside the try block, so a missing
\* id reaches the handler's except clause.
UpdateAttendance(p, id, data, user, ok) ==
    /\ Arrive(p, [op |-> "update", id |-> id, data |-> data, user |-> user])
    /\ IF id \notin Ids(db)
       THEN /\ resp' = [resp EXCEPT ![p] = ErrResp(500, "404 Not Found")]
            /\ db' = db
       ELSE LET old == CHOOSE r \in db : r.id = id
                r == Overwrite(old, Get(data, "present", old.present),
                               Get(data, "notes", old.notes), user, clock)
            IN  IF ok
                THEN /\ db' = (db \ {old}) \cup {r}
                     /\ resp' = [resp EXCEPT ![p] = RowResp(200, r)]
                ELSE /\ db' = db
                     /\ resp' = [resp EXCEPT ![p] = ErrResp(500, CommitFailed)]

\* delete_attendance
DeleteAttendance(p, id, ok) ==
    /\ Arrive(p, [op |-> "delete", id |-> id])
    /\ IF id \notin Ids(db)
       THEN /\ resp' = [resp EXCEPT ![p] = ErrResp(500, "404 Not Found")]
            /\ db' = db
       ELSE IF ok
       THEN /\ db' = {r \in db : r.id # id}
            /\ resp' = [resp EXCEPT ![p] = EmptyResp(204)]
       ELSE /\ db' = db
            /\ resp' = [resp EXCEPT ![p] = ErrResp(500, CommitFailed)]

\* The ids a client may name: every row's, and one no row has.
SomeIds == Ids(db) \cup {NewId}

Next ==
    \/ \E data \in BulkRequests, user \in BulkUsers : StartBulk(Main, data, user)
    \/ \E user \in Users : ResubmitBulk(Main, user)
    \/ BulkEntry(Main)
    \/ \E ok \in BOOLEAN : BulkCommit(Main, ok)
    \/ \E data \in CreateRequests, user \in Users, ok \in BOOLEAN :
          CreateAttendance(Main, data, user, ok)
    \/ \E id \in SomeIds, data \in UpdateRequests, user \in Users, ok \in BOOLEAN :
          UpdateAttendance(Main, id, data, user, ok)
    \/ \E id \in SomeIds, ok \in BOOLEAN : DeleteAttendance(Main, id, ok)
    \/ Return(Main)

\* One request after another.
Spec == Init /\ [][Next]_vars

NextRace ==
    \E p \in Procs :
        \/ \E data \in RaceRequests, user \in Users : StartBulk(p, data, user)
        \/ BulkEntry(p)
        \/ \E ok \in BOOLEAN : BulkCommit(p, ok)
        \/ Return(p)

\* Bulk requests served concurrently, each in its own session.
SpecRace == Init /\ [][NextRace]_vars

----------------------------------------------------------------------------
\* What the properties below speak of.

Triple(r) == <<r.student_id, r.class_id, r.date>>

IsBulk(p) == req[p].op = "bulk"

BulkDone(p) == pc[p] = "done" /\ IsBulk(p)

BulkOk(p) == BulkDone(p) /\ resp[p].status = 201

\* A bulk request that fails a precondition: a required field is missing,
\* the date is no Y-M-D value, or the class does not exist.
PreconditionFails(data) ==
    \/ ~(BulkKeys \subseteq DOMAIN data)
    \/ ~Strptime(data.date).ok
    \/ data.class_id \notin Classes

PreconditionStatus(data) ==
    IF ~(BulkKeys \subseteq DOMAIN data) \/ ~Strptime(data.date).ok
    THEN 400 ELSE 404

HasStudentId(e) == e.json = "object" /\ "student_id" \in DOMAIN e.f

\* An entry whose processing succeeds.
WellFormed(e) == HasStudentId(e) /\ e.f.student_id \in Students

\* An entry that names no existing student.
UnknownStudent(e) == HasStudentId(e) /\ e.f.student_id \notin Students

\* An entry whose processing fails unexpectedly.
Malformed(e) == ~HasStudentId(e)

\* How many of the first n entries are of each kind.
CountWellFormed(es, n) == Cardinality({i \in 1..n : WellFormed(es[i])})
CountUnknown(es, n) == Cardinality({i \in 1..n : UnknownStudent(es[i])})
CountMalformed(es, n) == Cardinality({i \in 1..n : Malformed(es[i])})

\* The "Student {id} not found" messages of the first n entries, in order.
RECURSIVE NotFoundOf(_, _)
NotFoundOf(es, n) ==
    IF n = 0 THEN <<>>
    ELSE IF UnknownStudent(es[n])
         THEN Append(NotFoundOf(es, n - 1),
                     "Student " \o ToString(es[n].f.student_id) \o " not found")
         ELSE NotFoundOf(es, n - 1)

IsNotFoundMessage(m) ==
    \E sid \in StudentIds : m = "Student " \o ToString(sid) \o " not found"

\* The last entry of es that names student s.
LastFor(es, s) ==
    es[CHOOSE i \in 1..Len(es) :
          /\ WellFormed(es[i]) /\ es[i].f.student_id = s
          /\ \A j \in (i + 1)..Len(es) :
                ~(WellFormed(es[j]) /\ es[j].f.student_id = s)]

Named(es, s) == \E i \in 1..Len(es) : WellFormed(es[i]) /\ es[i].f.student_id = s

\* The rows of the request's class and date.
RowsOf(S, p) ==
    {r \in S : /\ r.class_id = req[p].data.class_id
               /\ r.date = Strptime(req[p].data.date).date}

\* A row without the two fields every recording stamps.
Recorded(r) ==
    [id |-> r.id, student_id |-> r.student_id, class_id |-> r.class_id,
     date |-> r.date, present |-> r.present, notes |-> r.notes]

----------------------------------------------------------------------------
\* C1: in every committed state of a sequential run of bulk upserts,
\* creates, updates and deletes there is at most one attendance row per
\* (student_id, class_id, date), also when a batch names a student twice.
C1_UniqueTriple ==
    \A r1, r2 \in db : Triple(r1) = Triple(r2) => r1 = r2

\* A batch naming student 1 twice, with different values, on a store that
\* had no row for the student, has committed.
C1_Witness ==
    /\ BulkOk(Main)
    /\ Len(req[Main].data.attendances) = 2
    /\ \A i \in 1..2 : /\ WellFormed(req[Main].data.attendances[i])
                       /\ req[Main].data.attendances[i].f.student_id = 1
    /\ req[Main].data.attendances[1] # req[Main].data.attendances[2]
    /\ ~\E r \in db0[Main] : r.student_id = 1
    /\ Cardinality({r \in db : r.student_id = 1}) = 1

C3_EntryFailureNeverAborts ==
    \A p \in Procs :
        (/\ BulkDone(p)
         /\ ~PreconditionFails(req[p].data)
         /\ resp[p].error # CommitFailed) =>
            /\ resp[p].status = 201
            /\ idx[p] = Len(req[p].data.attendances)
            /\ Len(resp[p].errors) =
                  CountMalformed(req[p].data.attendances, idx[p])
                    + CountUnknown(req[p].data.attendances, idx[p])

\* C4: when the final commit fails the request is answered 500 with no
\* success list, and the store, as committed and as the session sees it,
\* is the store before the request.
C4_CommitFailureRollsBack ==
    \A p \in Procs :
        (BulkDone(p) /\ resp[p].error = CommitFailed) =>
            /\ resp[p].status = 500
            /\ resp[p].kind = "error"
            /\ resp[p].created = <<>>
            /\ db = db0[p]
            /\ SessionView(p) = db0[p]

\* The commit failed after the batch had overwritten a row with other
\* values and staged a new one.
C4_Witness ==
    /\ BulkDone(Main)
    /\ resp[Main].error = CommitFailed
    /\ added[Main] # {}
    /\ \E r \in db0[Main], i \in 1..Len(req[Main].data.attendances) :
          LET e == req[Main].data.attendances[i]
          IN  /\ WellFormed(e)
              /\ e.f.student_id = r.student_id
              /\ r.present # (IF "present" \in DOMAIN e.f THEN e.f.present ELSE TRUE)
              /\ r \in db

\* C5 as stated: errors plus records count the entries with a resolvable
\* student.
C5_CountsResolvableEntries ==
    \A p \in Procs :
        BulkOk(p) =>
            Len(resp[p].errors) + Len(resp[p].created) =
                CountWellFormed(req[p].data.attendances, Len(req[p].data.attendances))

\* C5 amended: errors plus records count every submitted entry; records
\* count the entries with a resolvable student, and the others are errors.
C5_CountsAllEntries ==
    \A p \in Procs :
        BulkOk(p) =>
            LET es == req[p].data.attendances
            IN  /\ Len(resp[p].errors) + Len(resp[p].created) = Len(es)
                /\ Len(resp[p].created) = CountWellFormed(es, Len(es))

\* A committed batch with a known and an unknown student.
C5_Witness ==
    /\ BulkOk(Main)
    /\ \E i, j \in 1..Len(req[Main].data.attendances) :
          /\ WellFormed(req[Main].data.attendances[i])
          /\ UnknownStudent(req[Main].data.attendances[j])

\* C6 as stated: a batch submitted again leaves the rows of its class and
\* date exactly as they were, recorded_by and recorded_at included.
C6_ResubmissionChangesNothing ==
    \A p \in Procs :
        (BulkOk(p) /\ resub[p]) => RowsOf(db, p) = RowsOf(db0[p], p)

\* C6 amended: a batch submitted again leaves the number of rows of its
\* class and date, and their student_id, class_id, date, present and notes,
\* as they were; the rows of the students it names are stamped with the
\* resubmitting user and the time of the resubmission.
C6_ResubmissionKeepsValues ==
    \A p \in Procs :
        (BulkOk(p) /\ resub[p]) =>
            /\ Cardinality(RowsOf(db, p)) = Cardinality(RowsOf(db0[p], p))
            /\ {Recorded(r) : r \in RowsOf(db, p)}
                  = {Recorded(r) : r \in RowsOf(db0[p], p)}
            /\ \A r \in RowsOf(db, p) :
                  IF Named(req[p].data.attendances, r.student_id)
                  THEN r.recorded_by = req[p].user /\ r.recorded_at = clock
                  ELSE r \in db0[p]

\* A batch that recorded a student has been submitted and committed again.
C6_Witness ==
    /\ BulkOk(Main)
    /\ resub[Main]
    /\ \E r \in db0[Main] : Named(req[Main].data.attendances, r.student_id)

\* While and after the entries are processed: the "not found" errors are
\* those of the unknown students met so far, in order; the records list
\* holds one element per well-formed entry met; no row names an unknown
\* student; a request answered 201 has processed every entry, returns the
\* errors collected and has a committed row for each well-formed entry.
C7_UnknownStudentState ==
    \A p \in Procs :
        (IsBulk(p) /\ ~PreconditionFails(req[p].data)) =>
            LET es == req[p].data.attendances
            IN  /\ SelectSeq(errors[p], IsNotFoundMessage) = NotFoundOf(es, idx[p])
                /\ Len(created[p]) = CountWellFormed(es, idx[p])
                /\ \A r \in db \cup SessionView(p) : r.student_id \in Students
                /\ BulkOk(p) => /\ idx[p] = Len(es)
                                /\ resp[p].errors = errors[p]
                                /\ \A i \in 1..Len(es) :
                                      WellFormed(es[i]) =>
                                         \E r \in db : r.student_id = es[i].f.student_id

\* The iteration that meets an unknown student appends the one message,
\* touches neither the records list nor any row, and stays in the loop.
C7_UnknownStudentStep ==
    \A p \in Procs :
        (/\ pc[p] = "loop"
         /\ idx[p] < Len(req[p].data.attendances)
         /\ UnknownStudent(req[p].data.attendances[idx[p] + 1])
         /\ idx'[p] # idx[p]) =>
            /\ errors'[p] = Append(errors[p],
                  "Student "
                    \o ToString(req[p].data.attendances[idx[p] + 1].f.student_id)
                    \o " not found")
            /\ created'[p] = created[p]
            /\ txn'[p] = txn[p] /\ added'[p] = added[p] /\ db' = db
            /\ pc'[p] = "loop" /\ idx'[p] = idx[p] + 1

\* C7: an entry naming no existing student adds exactly "Student {id} not
\* found" to errors, adds nothing to the records list, creates and touches
\* no row, and the loop goes on to the next entry, in input order; a
\* request that ends in 201 has processed and committed the other entries.
C7_UnknownStudent == []C7_UnknownStudentState /\ [][C7_UnknownStudentStep]_vars

\* Student 1 exists, 999 does not: one row for student 1, the one error,
\* status 201.
C7_Witness ==
    /\ BulkOk(Main)
    /\ Len(req[Main].data.attendances) = 2
    /\ UnknownStudent(req[Main].data.attendances[1])
    /\ WellFormed(req[Main].data.attendances[2])
    /\ resp[Main].errors = <<"Student 999 not found">>
    /\ Len(resp[Main].created) = 1
    /\ Cardinality(db) = 1

\* C8: the single-record create answers 400 for a student, class and date
\* that have a row and changes nothing; a bulk entry for them succeeds and
\* overwrites that row in place.
C8_CreateRejectsBulkOverwrites ==
    \A p \in Procs :
        /\ (/\ pc[p] = "done" /\ req[p].op = "create"
            /\ CreateKeys \subseteq DOMAIN req[p].data
            /\ Strptime(req[p].data.date).ok
            /\ \E r \in db0[p] :
                  Triple(r) = <<req[p].data.student_id, req[p].data.class_id,
                                Strptime(req[p].data.date).date>>)
              => (resp[p].status = 400 /\ resp[p].kind = "error" /\ db = db0[p])
        /\ BulkOk(p) =>
              \A r0 \in RowsOf(db0[p], p) :
                  Named(req[p].data.attendances, r0.student_id) =>
                      /\ \E r \in db : /\ r.id = r0.id
                                       /\ Triple(r) = Triple(r0)
                                       /\ r.recorded_by = req[p].user
                                       /\ r.recorded_at = clock
                      /\ Cardinality({r \in db : Triple(r) = Triple(r0)}) = 1

\* A create for a student, class and date that have a row was refused.
C8_Witness ==
    /\ pc[Main] = "done" /\ req[Main].op = "create"
    /\ resp[Main].status = 400
    /\ CreateKeys \subseteq DOMAIN req[Main].data
    /\ Strptime(req[Main].data.date).ok
    /\ \E r \in db :
          Triple(r) = <<req[Main].data.student_id, req[Main].data.class_id,
                        Strptime(req[Main].data.date).date>>

\* A bulk entry for a student, class and date that have a row, recorded by
\* the other user, was committed.
C8_WitnessBulk ==
    /\ BulkOk(Main)
    /\ \E r0 \in RowsOf(db0[Main], Main) :
          /\ Named(req[Main].data.attendances, r0.student_id)
          /\ r0.recorded_by # req[Main].user

\* C9: after a successful bulk upsert every student with a successfully
\* processed entry has one row for the class and date, with present and
\* notes of the LAST such entry (present true and notes absent when the
\* entry omits them) and recorded_by the acting user.
C9_LastEntryWins ==
    \A p \in Procs :
        BulkOk(p) =>
            \A s \in Students :
                Named(req[p].data.attendances, s) =>
                    LET e == LastFor(req[p].data.attendances, s)
                        rows == {r \in RowsOf(db, p) : r.student_id = s}
                    IN  /\ Cardinality(rows) = 1
                        /\ \A r \in rows :
                              /\ r.present = (IF "present" \in DOMAIN e.f
                                              THEN e.f.present ELSE TRUE)
                              /\ r.notes = (IF "notes" \in DOMAIN e.f
                                            THEN e.f.notes ELSE None)
                              /\ r.recorded_by = req[p].user

\* A batch whose last entry for student 1 omits present and notes, after an
\* entry giving them, on a row another user recorded as absent and late.
C9_Witness ==
    /\ BulkOk(Main)
    /\ Len(req[Main].data.attendances) = 2
    /\ req[Main].data.attendances[1]
          = Obj([student_id |-> 1, present |-> FALSE, notes |-> "late"])
    /\ req[Main].data.attendances[2] = Obj([student_id |-> 1])
    /\ \E r0 \in db0[Main] :
          /\ r0.student_id = 1 /\ r0.present = FALSE /\ r0.notes = "late"
          /\ r0.recorded_by # req[Main].user
    /\ \E r \in db : r.student_id = 1 /\ r.present = TRUE /\ r.notes = None

\* C10: two concurrent bulk requests that both staged an insert for the
\* same student, class and date, each having looked the row up before the
\* other committed, both commit, and the store then holds two rows for it.
C10_RaceDuplicates ==
    \A p, q \in Procs :
        (p # q /\ BulkOk(p) /\ BulkOk(q)) =>
            \A a \in added[p], b \in added[q] :
                Triple(a) = Triple(b) =>
                    Cardinality({r \in db : Triple(r) = Triple(a)}) >= 2

\* Both requests inserted a row for student 1 and both committed.
C10_Witness ==
    /\ BulkOk(1) /\ BulkOk(2)
    /\ \E a \in added[1], b \in added[2] :
          /\ a.student_id = 1 /\ Triple(a) = Triple(b)
          /\ Cardinality({r \in db : Triple(r) = Triple(a)}) = 2

====
